---- MODULE Spec2Model ----
(***************************************************************************)
(* Terrapin Compass dashboard (compass_dashboard.py): a Streamlit script   *)
(* that is re-run top to bottom on every user interaction.  The model has  *)
(* the database the script reads, the process-wide st.cache_data store,    *)
(* the wall clock, and what the last render pass sent to the data source   *)
(* and put on the page.                                                    *)
(*                                                                         *)
(* Texts that reach SQL by string interpolation (the ISIN box, a country   *)
(* name) are sequences of atoms: an atom is either the quote character Q   *)
(* or a non-empty run of characters without a quote.  Timestamps are       *)
(* seconds counted from 00:00 of the reporting day.                        *)
(***************************************************************************)
EXTENDS Integers, Sequences, FiniteSets, TLC

VARIABLES db, dbUp, now, cache, filter, sent, lookups, display, status, branches

vars == <<db, dbUp, now, cache, filter, sent, lookups, display, status, branches>>

(***************************************************************************)
(* Program constants                                                       *)
(***************************************************************************)
ttl == 7200

Day == 0

OneDay == 86400

OneMonth == 2678400

Limit == 10

Q == "'"

NULL == "NULL"

ABS == "asset-backed security"

UnitedKingdom == <<"United Kingdom">>

(***************************************************************************)
(* Bounds of the model                                                     *)
(***************************************************************************)
TickStep == 3600

MaxNow == 21600

NumIsins == 12

MaxExtra == 2

MaxIngest == 1

(***************************************************************************)
(* Reference data: venue codes in ascending (lexicographic) order and the  *)
(* MIC -> institution name mapping of mic_venue_codes.csv, names in        *)
(* ascending order.                                                        *)
(***************************************************************************)
VenueOrder == <<"DFRA", "XLON", "XOFF">>

NameOrder == <<"BOERSE FRANKFURT", "LONDON STOCK EXCHANGE", "OFF-EXCHANGE">>

NaN == "NaN"

mic_df == [v \in {"DFRA", "XLON", "XOFF"} |->
             CASE v = "DFRA" -> "BOERSE FRANKFURT"
               [] v = "XLON" -> "LONDON STOCK EXCHANGE"
               [] v = "XOFF" -> "OFF-EXCHANGE"]

CountryOrder == <<<<"Cote d", Q, "Ivoire">>, <<"France">>, UnitedKingdom>>

Range(s) == {s[i] : i \in 1..Len(s)}

Max(a, b) == IF a >= b THEN a ELSE b

(***************************************************************************)
(* Window predicates of the WHERE clauses                                  *)
(***************************************************************************)
(* Variant: the lower edge of the day included.                            *)
InDayFromMidnight(t) == t >= Day /\ t < Day + OneDay

InDay(t) == t > Day /\ t < Day + OneDay

InMonth(t) == t > Day - OneMonth /\ t < Day + OneDay

NotABS(b) == b.asset_class # NULL /\ b.asset_class # ABS

(***************************************************************************)
(* Cached lookups: the queries as functions of the database content d      *)
(***************************************************************************)
(* Variant: asset-backed securities not excluded.                          *)
MostTradedRowsWithABS(d, issuer_type) ==
    {tr \in d.trades :
        /\ \E b \in d.bonds : b.isin = tr.isin /\ b.issuer_type = issuer_type
        /\ tr.t > Day /\ tr.t < Day + OneDay}

sorted(S) == SelectSeq(VenueOrder, LAMBDA v : v \in S)

get_eligible_venues(d) ==
    sorted({tr.venue : tr \in {x \in d.trades :
                /\ InDay(x.t)
                /\ x.price_type = "PERC"
                /\ x.venue # NULL}})

MostTradedRows(d, issuer_type) ==
    {tr \in d.trades :
        /\ \E b \in d.bonds : /\ b.isin = tr.isin
                              /\ b.issuer_type = issuer_type
                              /\ NotABS(b)
        /\ InDay(tr.t)}

HowMany(rows, i) == Cardinality({tr \in rows : tr.isin = i})

RECURSIVE OrderDesc(_, _)
OrderDesc(rows, S) ==
    IF S = {} THEN <<>>
    ELSE LET top == CHOOSE i \in S : \A j \in S : HowMany(rows, i) >= HowMany(rows, j)
         IN  <<[isin |-> top, how_many |-> HowMany(rows, top)]>>
                 \o OrderDesc(rows, S \ {top})

(* ORDER BY how_many DESC LIMIT 10: the groups above the count at the cut  *)
(* are in; which of the groups tied at the cut make it into the result is  *)
(* the database's choice.                                                  *)
TopGroups(rows) ==
    LET groups == {x.isin : x \in rows}
    IN  IF Cardinality(groups) <= Limit
        THEN {OrderDesc(rows, groups)}
        ELSE LET cut   == CHOOSE c \in {HowMany(rows, i) : i \in groups} :
                             /\ Cardinality({i \in groups : HowMany(rows, i) > c}) < Limit
                             /\ Cardinality({i \in groups : HowMany(rows, i) >= c}) >= Limit
                 above == {i \in groups : HowMany(rows, i) > cut}
                 tied  == {i \in groups : HowMany(rows, i) = cut}
             IN  {OrderDesc(rows, above \cup K) :
                     K \in {K \in SUBSET tied : Cardinality(K) = Limit - Cardinality(above)}}

get_most_traded_df(d, issuer_type) == TopGroups(MostTradedRows(d, issuer_type))

MostQuotedRows(d) ==
    {q \in d.quotes :
        /\ \E b \in d.bonds : b.isin = q.isin /\ NotABS(b)
        /\ InDay(q.t)}

get_most_quoted_df(d) == TopGroups(MostQuotedRows(d))

Metrics(rows) ==
    [how_many_isins  |-> Cardinality({tr.isin : tr \in rows}),
     how_many_trades |-> Cardinality(rows),
     how_many_venues |-> Cardinality({tr.venue : tr \in rows} \ {NULL})]

get_top_level_metrics_df(d) ==
    LET ok(tr) == \E b \in d.bonds : b.isin = tr.isin /\ NotABS(b)
    IN  <<Metrics({tr \in d.trades : ok(tr) /\ InDay(tr.t)}),
          Metrics({tr \in d.trades : ok(tr) /\ InMonth(tr.t)})>>

VenueName(v) == IF v \in DOMAIN mic_df THEN mic_df[v] ELSE NaN

get_venue_metrics_df(d, issuer_type) ==
    LET rows == {tr \in d.trades :
                    /\ \E b \in d.bonds : /\ b.isin = tr.isin
                                          /\ NotABS(b)
                                          /\ b.issuer_type = issuer_type
                    /\ InMonth(tr.t)}
        row(v) == [mic    |-> v,
                   name   |-> VenueName(v),
                   bonds  |-> Cardinality({tr.isin : tr \in {x \in rows : x.venue = v}}),
                   trades |-> Cardinality({x \in rows : x.venue = v})]
        named   == SelectSeq(NameOrder, LAMBDA n : \E tr \in rows : VenueName(tr.venue) = n)
        byName  == [k \in 1..Len(named) |->
                       row(CHOOSE v \in {tr.venue : tr \in rows} : VenueName(v) = named[k])]
        unnamed == IF \E tr \in rows : tr.venue = NULL THEN <<row(NULL)>> ELSE <<>>
    IN  byName \o unnamed

(***************************************************************************)
(* SQL text.  A statement is a sequence of atoms; Tpl(n) stands for the    *)
(* fixed text of template n.  Quoted(x) is the f-string fragment '{x}'.    *)
(***************************************************************************)
Tpl(n) == <<"sql:" \o n>>

Quoted(x) == <<Q>> \o x \o <<Q>>

lower(issuer_type) ==
    CASE issuer_type = "Government" -> "government"
      [] issuer_type = "Corporate"  -> "corporate"
      [] OTHER -> issuer_type

(* The server's lexer on an interpolated fragment: a string constant runs  *)
(* from a quote to the next quote that is not doubled.                     *)
RECURSIVE Lex(_, _, _, _, _)
Lex(s, i, inStr, cur, toks) ==
    IF i > Len(s)
    THEN IF inStr THEN <<[kind |-> "unterminated", val |-> <<>>]>> ELSE toks
    ELSE IF inStr
         THEN IF s[i] = Q
              THEN IF i < Len(s) /\ s[i + 1] = Q
                   THEN Lex(s, i + 2, TRUE, Append(cur, Q), toks)
                   ELSE Lex(s, i + 1, FALSE, <<>>,
                            Append(toks, [kind |-> "lit", val |-> cur]))
              ELSE Lex(s, i + 1, TRUE, Append(cur, s[i]), toks)
         ELSE IF s[i] = Q
              THEN Lex(s, i + 1, TRUE, <<>>, toks)
              ELSE Lex(s, i + 1, FALSE, <<>>,
                       Append(toks, [kind |-> "raw", val |-> <<s[i]>>]))

Tokens(x) == Lex(Quoted(x), 1, FALSE, <<>>, <<>>)

IsLiteral(toks) == Len(toks) = 1 /\ toks[1].kind = "lit"

(* col = 'a' OR 'b'='c' *)
IsOrClause(toks) ==
    /\ Len(toks) = 5
    /\ toks[1].kind = "lit" /\ toks[2] = [kind |-> "raw", val |-> <<" OR ">>]
    /\ toks[3].kind = "lit" /\ toks[4] = [kind |-> "raw", val |-> <<"=">>]
    /\ toks[5].kind = "lit"

(* Does the statement with x interpolated after "col = " parse, and which  *)
(* column values does its condition accept.                                *)
Parses(x) == IsLiteral(Tokens(x)) \/ IsOrClause(Tokens(x))

Accepts(x, col) ==
    LET toks == Tokens(x)
    IN  IF IsLiteral(toks) THEN col = toks[1].val
        ELSE IsOrClause(toks) /\ (col = toks[1].val \/ toks[3].val = toks[5].val)

(* psycopg2 renders a bound tuple as a parenthesised list; an empty tuple  *)
(* becomes "()", which the server rejects in "venue IN ()".                *)
InListParses(venues) == Len(venues) > 0

(***************************************************************************)
(* Queries issued outside the cache                                        *)
(***************************************************************************)
countries_query(d) ==
    SelectSeq(CountryOrder,
              LAMBDA c : \E b \in d.bonds : b.country = c /\ \E tr \in d.trades : tr.isin = b.isin)

GREATEST(a, b) == Max(a, b)

AssetClassTradesText(country, issuer_type) ==
    Tpl("asset_trades:1") \o Quoted(country) \o Tpl("asset_trades:2")
        \o Quoted(<<lower(issuer_type)>>) \o Tpl("asset_trades:3")

TradesPerVenueText(country, issuer_type) ==
    Tpl("trades_per_venue:1") \o Quoted(country) \o Tpl("trades_per_venue:2")
        \o Quoted(<<lower(issuer_type)>>) \o Tpl("trades_per_venue:3")

AssetClassRows(d, country, issuer_type, venues) ==
    {tr \in d.trades :
        /\ \E b \in d.bonds : /\ Accepts(country, b.country)
                              /\ Accepts(<<lower(issuer_type)>>, <<b.issuer_type>>)
                              /\ b.isin = tr.isin
        /\ InDay(tr.t)
        /\ tr.venue \in Range(venues)}

AssetClassTradesQuery(d, country, issuer_type, venues) ==
    {[id |-> tr.id, trade_datetime |-> tr.t,
      quantity |-> GREATEST(tr.quantity, tr.notional_amount)] :
        tr \in AssetClassRows(d, country, issuer_type, venues)}

RECURSIVE SumQuantity(_)
SumQuantity(rows) ==
    IF rows = {} THEN 0
    ELSE LET tr == CHOOSE x \in rows : TRUE
         IN  GREATEST(tr.quantity, tr.notional_amount) + SumQuantity(rows \ {tr})

trades_per_venue_df(d, country, issuer_type, venues) ==
    LET rows == AssetClassRows(d, country, issuer_type, venues)
    IN  {[venue |-> v, how_many |-> Cardinality({tr \in rows : tr.venue = v}),
          total_quantity |-> SumQuantity({tr \in rows : tr.venue = v})] :
            v \in {tr.venue : tr \in rows}}

quotes_df(d, isin) ==
    {q \in d.quotes : q.isin = isin /\ q.price > 0 /\ InDay(q.t)}

PerIssueTradesQuery(d, isin, venues) ==
    {[id |-> tr.id, price |-> tr.price, venue |-> tr.venue, timestamp |-> tr.t,
      quantity |-> GREATEST(tr.quantity, tr.notional_amount)] :
        tr \in {x \in d.trades :
                   /\ x.isin = isin
                   /\ InDay(x.t)
                   /\ x.price_type = "PERC"
                   /\ x.venue \in Range(venues)}}

IssueText(isin) == Tpl("issue") \o Quoted(isin)

issue_df(d, isin) == {b \in d.bonds : Accepts(isin, b.isin)}

(***************************************************************************)
(* st.cache_data: one entry per (function, argument), kept for the         *)
(* function's time-to-live.                                                *)
(***************************************************************************)
Key(f, a) == <<f, a>>

CachedKeys ==
    {Key("get_eligible_venues", ""),
     Key("get_most_traded_df", "government"), Key("get_most_traded_df", "corporate"),
     Key("get_most_quoted_df", ""),
     Key("get_top_level_metrics_df", ""),
     Key("get_venue_metrics_df", "government"), Key("get_venue_metrics_df", "corporate")}

(* Variant: every function cached for the base time-to-live.              *)
TTLOfUniform(f) == ttl

TTLOf(f) ==
    CASE f = "get_eligible_venues"      -> ttl
      [] f = "get_most_traded_df"       -> ttl
      [] f = "get_most_quoted_df"       -> ttl
      [] f = "get_top_level_metrics_df" -> ttl * 3
      [] f = "get_venue_metrics_df"     -> ttl * 3

NoEntry == [present |-> FALSE, stored |-> 0, value |-> <<>>]

(* An entry is served while the clock is before its expiry, stored + ttl.  *)
Live(c, k) == c[k].present /\ now < c[k].stored + TTLOf(k[1])

Stmt(name, text, params) == [name |-> name, text |-> text, params |-> params]

(* The statements a cached function sends when it runs.                    *)
QueriesOf(k) ==
    CASE k[1] = "get_eligible_venues" ->
            <<Stmt(k[1], Tpl(k[1]), <<<<"date", Day>>>>)>>
      [] k[1] = "get_most_traded_df" ->
            <<Stmt(k[1], Tpl(k[1]), <<<<"date", Day>>, <<"issuer_type", k[2]>>>>)>>
      [] k[1] = "get_most_quoted_df" ->
            <<Stmt(k[1], Tpl(k[1]), <<<<"date", Day>>>>)>>
      [] k[1] = "get_top_level_metrics_df" ->
            <<Stmt("last_day_metrics", Tpl("last_day_metrics"), <<<<"date", Day>>>>),
              Stmt("last_month_metrics", Tpl("last_month_metrics"), <<<<"date", Day>>>>)>>
      [] k[1] = "get_venue_metrics_df" ->
            <<Stmt(k[1], Tpl(k[1]), <<<<"date", Day>>, <<"issuer_type", k[2]>>>>)>>

(* The possible results of running a cached function on database d.        *)
Compute(d, k) ==
    CASE k[1] = "get_eligible_venues"      -> {get_eligible_venues(d)}
      [] k[1] = "get_most_traded_df"       -> get_most_traded_df(d, k[2])
      [] k[1] = "get_most_quoted_df"       -> get_most_quoted_df(d)
      [] k[1] = "get_top_level_metrics_df" -> {get_top_level_metrics_df(d)}
      [] k[1] = "get_venue_metrics_df"     -> {get_venue_metrics_df(d, k[2])}

(***************************************************************************)
(* One run of the script.  A run state r carries what the run has done so  *)
(* far; once an exception is raised (status # "ok") the rest of the script *)
(* does not execute.                                                       *)
(***************************************************************************)
(* Variant: the page and the branch record of the previous run survive.    *)
StartKeepsPage == [cache |-> cache, sent |-> <<>>, lookups |-> <<>>, display |-> display,
                   status |-> "ok", branches |-> branches]

Start == [cache |-> cache, sent |-> <<>>, lookups |-> <<>>, display |-> <<>>,
          status |-> "ok", branches |-> {}]

Returned(k, hit, result) == [key |-> k, hit |-> hit, result |-> result]

Raise(r, exc) ==
    [r EXCEPT !.status = exc,
              !.display = Append(@, [kind |-> "exception", label |-> exc, value |-> <<>>])]

(* Variant: entries keyed by the function alone, its argument ignored.     *)
CachedCallKeyedByFunction(r, k, value) ==
    LET slot == CHOOSE c \in CachedKeys : c[1] = k[1]
    IN  IF r.status # "ok" THEN r
        ELSE IF Live(r.cache, slot)
        THEN [r EXCEPT !.lookups = Append(@, Returned(k, TRUE, r.cache[slot].value))]
        ELSE IF ~dbUp
        THEN Raise([r EXCEPT !.sent = Append(@, QueriesOf(k)[1])], "OperationalError")
        ELSE [r EXCEPT !.sent    = @ \o QueriesOf(k),
                       !.cache[slot] = [present |-> TRUE, stored |-> now, value |-> value],
                       !.lookups = Append(@, Returned(k, FALSE, value))]

(* Variant: a failed run leaves an empty entry behind.                     *)
CachedCallStoresFailure(r, k, value) ==
    IF r.status # "ok" THEN r
    ELSE IF Live(r.cache, k)
    THEN [r EXCEPT !.lookups = Append(@, Returned(k, TRUE, r.cache[k].value))]
    ELSE IF ~dbUp
    THEN Raise([r EXCEPT !.sent = Append(@, QueriesOf(k)[1]),
                         !.cache[k] = [present |-> TRUE, stored |-> now, value |-> <<>>]],
               "OperationalError")
    ELSE [r EXCEPT !.sent    = @ \o QueriesOf(k),
                   !.cache[k] = [present |-> TRUE, stored |-> now, value |-> value],
                   !.lookups = Append(@, Returned(k, FALSE, value))]

(* A call of a function under @st.cache_data; value is what the query      *)
(* answers if it has to run.                                               *)
CachedCall(r, k, value) ==
    IF r.status # "ok" THEN r
    ELSE IF Live(r.cache, k)
    THEN [r EXCEPT !.lookups = Append(@, Returned(k, TRUE, r.cache[k].value))]
    ELSE IF ~dbUp
    THEN Raise([r EXCEPT !.sent = Append(@, QueriesOf(k)[1])], "OperationalError")
    ELSE [r EXCEPT !.sent    = @ \o QueriesOf(k),
                   !.cache[k] = [present |-> TRUE, stored |-> now, value |-> value],
                   !.lookups = Append(@, Returned(k, FALSE, value))]

(* pd.read_sql_query outside the cache.                                    *)
read_sql_query(r, stmt, parses, result) ==
    IF r.status # "ok" THEN r
    ELSE LET r1 == [r EXCEPT !.sent = Append(@, stmt)]
         IN  IF ~dbUp THEN Raise(r1, "OperationalError")
             ELSE IF ~parses THEN Raise(r1, "ProgrammingError")
             ELSE [r1 EXCEPT !.lookups = Append(@, Returned(Key(stmt.name, ""), FALSE, result))]

Show(r, kind, label, value) ==
    IF r.status # "ok" THEN r
    ELSE [r EXCEPT !.display = Append(@, [kind |-> kind, label |-> label, value |-> value])]

Enter(r, branch) ==
    IF r.status # "ok" THEN r ELSE [r EXCEPT !.branches = @ \cup {branch}]

Last(r) == r.lookups[Len(r.lookups)].result

(* Lines 133-146: the top-level metrics, and the dashboard selector.       *)
Header(r, fresh) ==
    LET r1 == CachedCall(r, Key("get_top_level_metrics_df", ""), fresh)
    IN  IF r1.status # "ok" THEN r1
        ELSE LET m == Last(r1)
             IN  Show(Show(r1, "metric", "last day", m[1]), "metric", "last month", m[2])

ShowLast(r, kind, label) ==
    IF r.status # "ok" THEN r ELSE Show(r, kind, label, Last(r))

Params(isin, venues) == <<<<"date", Day>>, <<"isin", isin>>, <<"venues", venues>>>>

(* Lines 239-267: the per-issue view up to the venue multiselect.          *)
PerIssueTop(r, gov, corp, elig) ==
    LET r1 == Enter(r, "Per-issue view")
        r2 == ShowLast(CachedCall(r1, Key("get_most_traded_df", "government"), gov),
                       "dataframe", "Most traded govies")
        r3 == ShowLast(CachedCall(r2, Key("get_most_traded_df", "corporate"), corp),
                       "dataframe", "Most traded corporates")
    IN  CachedCall(r3, Key("get_eligible_venues", ""), elig)

(* Lines 296-350: what the per-issue view puts on the page.                *)
PerIssueShow(r, isin, trades, issue) ==
    IF Cardinality(trades) > 0
    THEN LET a == Show(r, "dataframe", "issue_df", issue)
             b == Show(a, "write", "For more info on this instrument visit", isin)
             c == Show(b, "plotly_chart", "Trade prices", trades)
             e == Show(c, "plotly_chart", "Trades per venue", trades)
             f == Show(e, "plotly_chart", "Aggregate trades throughout the day", trades)
         IN  Show(f, "plotly_chart", "Volume per venue (as reported)", trades)
    ELSE IF Len(isin) > 0
         THEN Show(r, "write", "No trades found. Please try a different ISIN.", <<>>)
         ELSE r

(* Lines 269-350: the per-issue queries and the branch on len(trades_df).  *)
PerIssueRest(r, d, isin, venues) ==
    LET r1 == read_sql_query(r, Stmt("quotes_df", Tpl("quotes_df"),
                                     <<<<"date", Day>>, <<"isin", isin>>>>),
                             TRUE, quotes_df(d, isin))
        r2 == read_sql_query(r1, Stmt("trades_df", Tpl("trades_df"), Params(isin, venues)),
                             InListParses(venues), PerIssueTradesQuery(d, isin, venues))
        r3 == read_sql_query(r2, Stmt("issue_df", IssueText(isin), <<>>),
                             Parses(isin), issue_df(d, isin))
    IN  IF r3.status # "ok" THEN r3
        ELSE PerIssueShow(r3, isin, r3.lookups[Len(r3.lookups) - 1].result, Last(r3))

(* Lines 157-180: the asset class view up to the venue multiselect.        *)
AssetClassTop(r, d, elig) ==
    LET r1 == Enter(r, "Asset class view")
        r2 == read_sql_query(r1, Stmt("countries", Tpl("countries"), <<>>),
                             TRUE, countries_query(d))
        r3 == IF r2.status = "ok" /\ UnitedKingdom \notin Range(Last(r2))
              THEN Raise(r2, "ValueError") ELSE r2
    IN  CachedCall(r3, Key("get_eligible_venues", ""), elig)

(* Lines 183-237: the two asset class queries and the four charts.         *)
AssetClassRest(r, d, issuer_type, country, venues) ==
    LET params == <<<<"date", Day>>, <<"venues", venues>>>>
        r1 == read_sql_query(r, Stmt("asset_trades", AssetClassTradesText(country, issuer_type), params),
                             Parses(country) /\ InListParses(venues),
                             AssetClassTradesQuery(d, country, issuer_type, venues))
        r2 == ShowLast(r1, "plotly_chart", "Number of trades per time period")
        r3 == read_sql_query(r2, Stmt("trades_per_venue", TradesPerVenueText(country, issuer_type), params),
                             Parses(country) /\ InListParses(venues),
                             trades_per_venue_df(d, country, issuer_type, venues))
        r4 == ShowLast(r3, "plotly_chart", "Number of trades per venue")
        r5 == IF r4.status # "ok" THEN r4
              ELSE Show(r4, "plotly_chart", "Volume traded per time period",
                        r4.lookups[Len(r4.lookups) - 1].result)
    IN  ShowLast(r5, "plotly_chart", "Volume traded per venue")

(* Lines 353-364: the venue coverage view.                                 *)
VenueCoverage(r, d) ==
    LET r1 == Enter(r, "Venue coverage and metrics")
        r2 == Show(r1, "write", "Metrics by issuer type and venues of execution over the last month", <<>>)
        r3 == CachedCall(r2, Key("get_venue_metrics_df", "corporate"),
                         get_venue_metrics_df(d, "corporate"))
        r4 == ShowLast(Show(r3, "write", "Government bonds:", <<>>), "table", "venue_gov_metrics_df")
        r5 == CachedCall(r4, Key("get_venue_metrics_df", "government"),
                         get_venue_metrics_df(d, "government"))
    IN  ShowLast(Show(r5, "write", "Corporate bonds:", <<>>), "table", "venue_corp_metrics_df")

(***************************************************************************)
(* Actions: one user interaction, and the run of the script it triggers.   *)
(***************************************************************************)
FilterState(option, isin, issuer_type, country, venues) ==
    [option |-> option, isin |-> isin, issuer_type |-> issuer_type,
     country |-> country, selected_venues |-> venues]

Commit(r, f) ==
    /\ cache' = r.cache
    /\ sent' = r.sent
    /\ lookups' = r.lookups
    /\ display' = r.display
    /\ status' = r.status
    /\ branches' = r.branches
    /\ filter' = f
    /\ UNCHANGED <<db, dbUp, now>>

(* The multiselect offers the eligible venues, all selected by default.    *)
Selections(eligible, deselect) ==
    IF deselect
    THEN {SelectSeq(eligible, LAMBDA v : v \in S) : S \in SUBSET Range(eligible)}
    ELSE {eligible}

Offered(r) == IF r.status = "ok" THEN Last(r) ELSE <<>>

RenderPerIssue(isins, deselect) ==
    \E gov \in get_most_traded_df(db, "government"), corp \in get_most_traded_df(db, "corporate") :
    \E isin \in isins :
        LET top == PerIssueTop(Header(Start, get_top_level_metrics_df(db)), gov, corp,
                               get_eligible_venues(db))
        IN  \E venues \in Selections(Offered(top), deselect) :
                Commit(PerIssueRest(top, db, isin, venues),
                       FilterState("Per-issue view", isin, "", <<>>, venues))

RenderAssetClass(issuer_types) ==
    \E issuer_type \in issuer_types :
        LET top == AssetClassTop(Header(Start, get_top_level_metrics_df(db)), db,
                                 get_eligible_venues(db))
            countries == IF top.status = "ok"
                         THEN Range(top.lookups[Len(top.lookups) - 1].result)
                         ELSE {<<>>}
        IN  \E country \in countries :
            \E venues \in Selections(Offered(top), TRUE) :
                Commit(AssetClassRest(top, db, issuer_type, country, venues),
                       FilterState("Asset class view", <<>>, issuer_type, country, venues))

RenderVenueCoverage ==
    Commit(VenueCoverage(Header(Start, get_top_level_metrics_df(db)), db),
           FilterState("Venue coverage and metrics", <<>>, "", <<>>, <<>>))

(* A call of one cached function from outside a render pass.               *)
Call(k) ==
    \E value \in Compute(db, k) :
        Commit(CachedCall(Start, k, value), FilterState("none", <<>>, "", <<>>, <<>>))

(***************************************************************************)
(* Database contents                                                       *)
(***************************************************************************)
Trade(id, isin, venue, t, price_type, quantity, notional_amount) ==
    [id |-> id, isin |-> isin, venue |-> venue, t |-> t, price_type |-> price_type,
     price |-> 99, quantity |-> quantity, notional_amount |-> notional_amount]

Bond(isin, ticker, issuer_type, asset_class, country) ==
    [isin |-> isin, ticker |-> ticker, issuer_type |-> issuer_type,
     asset_class |-> asset_class, country |-> country]

Quote(isin, t, price) == [isin |-> isin, t |-> t, price |-> price]

GB01 == <<"GB01">>

XS02 == <<"XS02">>

XS03 == <<"XS03">>

FR04 == <<"FR04">>

AppBonds ==
    {Bond(GB01, "UKT", "government", "government bond", UnitedKingdom),
     Bond(XS02, "CIV", "corporate", "corporate bond", <<"Cote d", Q, "Ivoire">>),
     Bond(XS03, "ABS", "corporate", ABS, UnitedKingdom),
     Bond(FR04, "FRTR", "government", "government bond", <<"France">>)}

T1 == Trade(1, GB01, "XLON", 36000, "PERC", 100, 0)

T2 == Trade(2, XS02, "DFRA", 40000, "PERC", 0, 250)

T3 == Trade(3, XS03, "XOFF", 50000, "PERC", 10, 10)

T4 == Trade(4, GB01, NULL, Day - OneDay, "MONE", 5, 0)

AppQuotes == {Quote(GB01, 30000, 99), Quote(XS02, 30000, 0)}

AppDbs ==
    {[trades |-> ts, quotes |-> AppQuotes, bonds |-> AppBonds, version |-> 0] :
        ts \in {{T1, T2, T3}, {T2, T3}, {T1, T2, T3, T4}}}

(* The rows the n-th load of the external ingestion adds.                  *)
Batch(n) ==
    [trades |-> {Trade(10 * n + 1, GB01, "XOFF", 36000 + n, "PERC", 1, 1),
                 Trade(10 * n + 2, XS02, "XLON", 36000 + n, "PERC", 1, 1)},
     quotes |-> {Quote(GB01, 36000 + n, 98)}]

(* Bonds I1..In with a graded number of trades inside the day, bond c      *)
(* corporate, bond a asset-backed, and up to MaxExtra more trades at the   *)
(* edges of the day window.                                                *)
Isin(i) == <<"I" \o ToString(i)>>

BaseTrades(i) == {Trade(10 * i + k, Isin(i), "XLON", 36000, "PERC", 1, 1) : k \in 0..(i % 3)}

EdgeTimes == {Day, Day + 1, Day + OneDay - 1, Day + OneDay}

EdgeTrades ==
    {Trade(1000 + 10 * i + (IF t < Day + 2 THEN t - Day ELSE t - Day - OneDay + 3),
           Isin(i), "DFRA", t, "PERC", 1, 1) : i \in {3, NumIsins}, t \in EdgeTimes}

QueryDbs ==
    {[trades  |-> UNION {BaseTrades(i) : i \in 1..NumIsins} \cup extra,
      quotes  |-> {},
      bonds   |-> {Bond(Isin(i), "T",
                        IF i = c THEN "corporate" ELSE "government",
                        IF i = a THEN ABS ELSE "bond", UnitedKingdom) : i \in 1..NumIsins},
      version |-> 0] :
        c \in {0, NumIsins}, a \in {0, 2, NumIsins},
        extra \in {E \in SUBSET EdgeTrades : Cardinality(E) <= MaxExtra}}

(***************************************************************************)
(* Environment                                                             *)
(***************************************************************************)
Tick ==
    /\ now < MaxNow
    /\ now' = now + TickStep
    /\ UNCHANGED <<db, dbUp, cache, filter, sent, lookups, display, status, branches>>

Ingest ==
    /\ db.version < MaxIngest
    /\ db' = [db EXCEPT !.trades = @ \cup Batch(db.version + 1).trades,
                        !.quotes = @ \cup Batch(db.version + 1).quotes,
                        !.version = @ + 1]
    /\ UNCHANGED <<dbUp, now, cache, filter, sent, lookups, display, status, branches>>

DataSourceFails ==
    /\ dbUp
    /\ dbUp' = FALSE
    /\ UNCHANGED <<db, now, cache, filter, sent, lookups, display, status, branches>>

DataSourceRecovers ==
    /\ ~dbUp
    /\ dbUp' = TRUE
    /\ UNCHANGED <<db, now, cache, filter, sent, lookups, display, status, branches>>

(***************************************************************************)
(* Specifications                                                          *)
(***************************************************************************)
InitRest ==
    /\ dbUp = TRUE
    /\ now = 0
    /\ cache = [k \in CachedKeys |-> NoEntry]
    /\ filter = FilterState("none", <<>>, "", <<>>, <<>>)
    /\ sent = <<>>
    /\ lookups = <<>>
    /\ display = <<>>
    /\ status = "ok"
    /\ branches = {}

IsinInputs == {<<>>, GB01, FR04, <<"XS99">>, <<Q>>, <<Q, " OR ", Q, "1", Q, "=", Q, "1">>}

(* The dashboard under every filter choice, with a data source that may    *)
(* fail, inside one time-to-live window.                                   *)
Init == db \in AppDbs /\ InitRest

PerIssueView == RenderPerIssue(IsinInputs, TRUE)

AssetClassView == RenderAssetClass({"Government", "Corporate"})

VenueCoverageView == RenderVenueCoverage

Next ==
    \/ PerIssueView
    \/ AssetClassView
    \/ VenueCoverageView
    \/ DataSourceFails
    \/ DataSourceRecovers

Spec == Init /\ [][Next]_vars

(* The cache over time: the per-issue and venue coverage views with their  *)
(* default widget values, a direct call of get_most_quoted_df, the clock,  *)
(* and the ingestion process adding rows.                                  *)
InitCache == db = [trades |-> {T1, T2, T3}, quotes |-> AppQuotes, bonds |-> AppBonds,
                   version |-> 0] /\ InitRest

DefaultPerIssueView == RenderPerIssue({<<>>}, FALSE)

CallMostQuoted == Call(Key("get_most_quoted_df", ""))

NextCache ==
    \/ DefaultPerIssueView
    \/ VenueCoverageView
    \/ CallMostQuoted
    \/ Tick
    \/ Ingest

SpecCache == InitCache /\ [][NextCache]_vars

(* get_most_traded_df as a function of the database content.               *)
InitQuery == db \in QueryDbs /\ InitRest

CallMostTraded == \E it \in {"government", "corporate"} : Call(Key("get_most_traded_df", it))

NextQuery == CallMostTraded

SpecQuery == InitQuery /\ [][NextQuery]_vars

(***************************************************************************)
(* Claims                                                                  *)
(***************************************************************************)
(* A step that runs the script: the database, the data source and the      *)
(* clock stay as they are.                                                 *)
PassStep == UNCHANGED <<db, dbUp, now>>

Executions(log, k) ==
    Cardinality({j \in 1..Len(log) : \E q \in 1..Len(QueriesOf(k)) :
                    /\ log[j].name = QueriesOf(k)[q].name
                    /\ log[j].params = QueriesOf(k)[q].params})

(* C1: a call of a cached lookup whose entry for the same arguments is     *)
(* still inside its time-to-live returns the stored first result and runs  *)
(* no query; an entry is only ever written by a call with its own key,     *)
(* with that call's own result.                                            *)
C1_CacheHit ==
    [][PassStep =>
        /\ \A i \in 1..Len(lookups') :
              LET l == lookups'[i]
              IN  (l.key \in CachedKeys /\ Live(cache, l.key)) =>
                     /\ l.hit
                     /\ l.result = cache[l.key].value
                     /\ cache'[l.key] = cache[l.key]
                     /\ Executions(sent', l.key) = 0
        /\ \A k \in CachedKeys :
              cache'[k] # cache[k] =>
                 \E i \in 1..Len(lookups') :
                    /\ lookups'[i].key = k
                    /\ ~lookups'[i].hit
                    /\ lookups'[i].result \in Compute(db, k)
                    /\ cache'[k].value = lookups'[i].result]_vars

(* A hit served a result that a fresh query would no longer give.          *)
C1_Witness ==
    \E i \in 1..Len(lookups) :
        /\ lookups[i].key = Key("get_most_traded_df", "government")
        /\ lookups[i].hit
        /\ lookups[i].result \notin Compute(db, lookups[i].key)

ClaimedTTL(f) ==
    IF f \in {"get_eligible_venues", "get_most_traded_df", "get_most_quoted_df"}
    THEN 7200 ELSE 21600

(* C8: an entry is served until 7200 s (eligible venues, most traded, most *)
(* quoted) or 21600 s (top-level metrics, venue metrics) after it was      *)
(* stored and not after; the first call after that runs the query once and *)
(* its result replaces the entry.                                          *)
C8_Expiry ==
    [][PassStep =>
        \A i \in 1..Len(lookups') :
           LET l == lookups'[i]
               k == l.key
           IN  k \in CachedKeys =>
                 /\ (cache[k].present /\ now - cache[k].stored < ClaimedTTL(k[1])) => l.hit
                 /\ l.hit => /\ cache[k].present
                             /\ now - cache[k].stored < ClaimedTTL(k[1])
                             /\ l.result = cache[k].value
                 /\ (cache[k].present /\ now - cache[k].stored >= ClaimedTTL(k[1])) =>
                       /\ ~l.hit
                       /\ Executions(sent', k) = Len(QueriesOf(k))
                       /\ l.result \in Compute(db, k)
                       /\ cache'[k] = [present |-> TRUE, stored |-> now, value |-> l.result]]_vars

(* The top-level metrics stored at 0 were recomputed at 21600 in a pass    *)
(* that still found the most-traded entry of an earlier pass.              *)
C8_Witness ==
    /\ now = 21600
    /\ Len(lookups) >= 2
    /\ lookups[1].key = Key("get_top_level_metrics_df", "")
    /\ ~lookups[1].hit
    /\ lookups[2].key = Key("get_most_traded_df", "government")
    /\ lookups[2].hit
    /\ cache[lookups[1].key].stored = now

HasStmt(n) == \E j \in 1..Len(sent) : sent[j].name = n

Shows(kind) == \E e \in 1..Len(display) : display[e].kind = kind

ShowsLabel(label) == \E e \in 1..Len(display) : display[e].label = label

ResultOf(k) == lookups[CHOOSE i \in 1..Len(lookups) : lookups[i].key = k].result

Answered(k) == \E i \in 1..Len(lookups) : lookups[i].key = k

(* C2: with every venue deselected, each venue-filtered query of the       *)
(* asset class and per-issue views answers zero rows and the pass          *)
(* completes.                                                              *)
C2_EmptyVenuesEmptyResult ==
    (/\ filter.option \in {"Asset class view", "Per-issue view"}
     /\ filter.selected_venues = <<>>
     /\ Parses(filter.country)
     /\ status # "OperationalError"
     /\ HasStmt("trades_df") \/ HasStmt("asset_trades"))
    => /\ status \in {"ok"} \cup (IF Parses(filter.isin) THEN {} ELSE {"ProgrammingError"})
       /\ HasStmt("trades_df") => /\ Answered(Key("trades_df", ""))
                                  /\ ResultOf(Key("trades_df", "")) = {}
       /\ HasStmt("asset_trades") => /\ Answered(Key("asset_trades", ""))
                                     /\ ResultOf(Key("asset_trades", "")) = {}
                                     /\ Answered(Key("trades_per_venue", ""))
                                     /\ ResultOf(Key("trades_per_venue", "")) = {}

NoneInDay(d, isin) ==
    /\ ~\E tr \in d.trades : tr.isin = isin /\ InDay(tr.t)
    /\ ~\E q \in d.quotes : q.isin = isin /\ InDay(q.t)

NotFound == "No trades found. Please try a different ISIN."

(* C3: in a per-issue pass whose queries the data source answers, an ISIN  *)
(* text that is not empty and has no trades and no quotes in the day gets  *)
(* the not-found message and neither charts nor the reference row; an      *)
(* empty ISIN text gets neither message nor chart; charts and reference    *)
(* row appear only when the trades query returned a row.                   *)
C3_NotFoundMessage ==
    (/\ filter.option = "Per-issue view"
     /\ HasStmt("quotes_df")
     /\ status # "OperationalError")
    => /\ (NoneInDay(db, filter.isin) /\ Len(filter.isin) > 0) =>
             /\ ShowsLabel(NotFound)
             /\ ~Shows("plotly_chart")
             /\ ~ShowsLabel("issue_df")
       /\ filter.isin = <<>> => ~ShowsLabel(NotFound) /\ ~Shows("plotly_chart")
       /\ (Shows("plotly_chart") \/ ShowsLabel("issue_df")) =>
             /\ Answered(Key("trades_df", ""))
             /\ ResultOf(Key("trades_df", "")) # {}

(* C4: in the venue coverage view the table under "Government bonds:" is   *)
(* the venue metrics of issuer type government and the table under         *)
(* "Corporate bonds:" is the one of issuer type corporate.                 *)
C4_HeadingsMatchIssuerType ==
    (filter.option = "Venue coverage and metrics" /\ status = "ok")
    => \A e \in 1..(Len(display) - 1) :
          /\ display[e].label = "Government bonds:" =>
                display[e + 1].value = ResultOf(Key("get_venue_metrics_df", "government"))
          /\ display[e].label = "Corporate bonds:" =>
                display[e + 1].value = ResultOf(Key("get_venue_metrics_df", "corporate"))

(* C7: two passes of the same view send the same SQL text for each query,  *)
(* whatever the filter values are.                                         *)
C7_TextIndependentOfFilter ==
    [][(PassStep /\ filter'.option = filter.option) =>
         \A i \in 1..Len(sent) : \A j \in 1..Len(sent') :
            sent[i].name = sent'[j].name => sent[i].text = sent'[j].text]_vars

AllowedStmts(option) ==
    {"last_day_metrics", "last_month_metrics"} \cup
    CASE option = "Per-issue view" ->
            {"get_most_traded_df", "get_eligible_venues", "quotes_df", "trades_df", "issue_df"}
      [] option = "Asset class view" ->
            {"countries", "get_eligible_venues", "asset_trades", "trades_per_venue"}
      [] option = "Venue coverage and metrics" -> {"get_venue_metrics_df"}

AllowedLabels(option) ==
    {"last day", "last month"} \cup {"OperationalError", "ProgrammingError", "ValueError"} \cup
    CASE option = "Per-issue view" ->
            {"Most traded govies", "Most traded corporates", "issue_df",
             "For more info on this instrument visit", "Trade prices", "Trades per venue",
             "Aggregate trades throughout the day", "Volume per venue (as reported)", NotFound}
      [] option = "Asset class view" ->
            {"Number of trades per time period", "Number of trades per venue",
             "Volume traded per time period", "Volume traded per venue"}
      [] option = "Venue coverage and metrics" ->
            {"Metrics by issuer type and venues of execution over the last month",
             "Government bonds:", "venue_gov_metrics_df", "Corporate bonds:",
             "venue_corp_metrics_df"}

OnlyOwnMode ==
    /\ \A j \in 1..Len(sent) : sent[j].name \in AllowedStmts(filter.option)
    /\ \A e \in 1..Len(display) : display[e].label \in AllowedLabels(filter.option)

SameFilterSamePage ==
    (filter' = filter /\ status = "ok" /\ status' = "ok") => display' = display

(* C9 as written: every pass runs exactly one of the three branches, sends *)
(* only the top-level metrics and its own mode's queries, and what it      *)
(* shows does not depend on earlier passes.                                *)
C9_ExactlyOneBranch ==
    [][PassStep => /\ branches' = {filter'.option}
                   /\ OnlyOwnMode'
                   /\ SameFilterSamePage]_vars

(* C9 amended: a pass runs at most one branch, the selected one, and runs  *)
(* it exactly when the top-level metrics lookup has returned; it sends     *)
(* only the top-level metrics and its own mode's queries, and what it      *)
(* shows does not depend on earlier passes.                                *)
C9_OneBranchOnceHeaderReturns ==
    [][PassStep => /\ branches' = (IF Len(lookups') >= 1 THEN {filter'.option} ELSE {})
                   /\ OnlyOwnMode'
                   /\ SameFilterSamePage]_vars

(* A venue coverage pass after an earlier pass of another mode.            *)
C9_Witness ==
    /\ filter.option = "Venue coverage and metrics"
    /\ status = "ok"
    /\ lookups[1].hit
    /\ cache[Key("get_eligible_venues", "")].present

KeyOfStmt(q) ==
    CASE q.name \in {"last_day_metrics", "last_month_metrics"} ->
            Key("get_top_level_metrics_df", "")
      [] q.name \in {"get_most_traded_df", "get_venue_metrics_df"} -> Key(q.name, q.params[2][2])
      [] OTHER -> Key(q.name, "")

Times(log, q) ==
    Cardinality({j \in 1..Len(log) : log[j].name = q.name /\ log[j].params = q.params})

(* C10 as written: the failed query surfaces to the caller as an (empty)   *)
(* result with an error indicator.                                         *)
C10_FailureReturnsEmptyResult ==
    status = "OperationalError" =>
        /\ Len(lookups) > 0
        /\ lookups[Len(lookups)].key = KeyOfStmt(sent[Len(sent)])

(* C10 amended: a query that fails against the data source is sent once in *)
(* that pass and is the last thing the pass does: the exception ends the   *)
(* pass, nothing is returned to the caller for it and nothing is stored;   *)
(* the same lookup on the next interaction sends the query again.          *)
C10_FailureAbortsPassUncached ==
    [][PassStep =>
        /\ status' = "OperationalError" =>
              /\ Len(sent') > 0
              /\ Times(sent', sent'[Len(sent')]) = 1
              /\ display'[Len(display')].kind = "exception"
              /\ ~\E i \in 1..Len(lookups') : lookups'[i].key = KeyOfStmt(sent'[Len(sent')])
              /\ KeyOfStmt(sent'[Len(sent')]) \in CachedKeys =>
                    cache'[KeyOfStmt(sent'[Len(sent')])] = cache[KeyOfStmt(sent'[Len(sent')])]
        /\ status = "OperationalError" =>
              \A i \in 1..Len(lookups') :
                 lookups'[i].key = KeyOfStmt(sent[Len(sent)]) =>
                    /\ ~lookups'[i].hit
                    /\ \E j \in 1..Len(sent') : sent'[j].name = sent[Len(sent)].name]_vars

(* A pass that failed after serving a lookup from the cache.               *)
C10_Witness ==
    /\ status = "OperationalError"
    /\ Len(lookups) > 0
    /\ lookups[1].hit
    /\ sent[Len(sent)].name = "get_most_traded_df"

EligibleIsins(d, issuer_type) ==
    {b.isin : b \in {x \in d.bonds : x.issuer_type = issuer_type /\ x.asset_class # ABS}}

(* Trades of an ISIN with D 00:00 < t < D+1 00:00, and with D 00:00 <= t.  *)
OpenCount(d, i) ==
    Cardinality({tr \in d.trades : tr.isin = i /\ Day < tr.t /\ tr.t < Day + OneDay})

HalfOpenCount(d, i) ==
    Cardinality({tr \in d.trades : tr.isin = i /\ Day <= tr.t /\ tr.t < Day + OneDay})

IsinsOf(r) == {r[n].isin : n \in 1..Len(r)}

IsMostTraded(l) == l.key[1] = "get_most_traded_df"

(* C5: get_most_traded_df(issuer_type) has at most 10 rows in              *)
(* non-increasing how_many order, all of bonds of that issuer type that    *)
(* are not asset-backed, and leaves out no eligible ISIN with more trades  *)
(* in the day than an ISIN it contains.                                    *)
C5_TopTen ==
    \A i \in 1..Len(lookups) :
        LET l == lookups[i]
            r == l.result
        IN  IsMostTraded(l) =>
               /\ Len(r) <= 10
               /\ \A n \in 1..(Len(r) - 1) : r[n].how_many >= r[n + 1].how_many
               /\ IsinsOf(r) \subseteq EligibleIsins(db, l.key[2])
               /\ \A x \in EligibleIsins(db, l.key[2]) \ IsinsOf(r) : \A y \in IsinsOf(r) :
                     ~(OpenCount(db, x) > OpenCount(db, y))

(* Ten rows returned, an eligible ISIN with trades left out, and a traded  *)
(* asset-backed bond of the same issuer type in the database.              *)
C5_Witness ==
    \E i \in 1..Len(lookups) :
        LET l == lookups[i]
        IN  /\ IsMostTraded(l)
            /\ Len(l.result) = 10
            /\ \E x \in EligibleIsins(db, l.key[2]) \ IsinsOf(l.result) : OpenCount(db, x) > 0
            /\ \E b \in db.bonds : /\ b.asset_class = ABS
                                   /\ b.issuer_type = l.key[2]
                                   /\ OpenCount(db, b.isin) > 0

(* C6 as written: the trades counted are those with D 00:00 <= t < D+1     *)
(* 00:00, a trade at exactly D 00:00 included.                             *)
C6_HalfOpenWindow ==
    \A i \in 1..Len(lookups) :
        LET l == lookups[i]
            r == l.result
        IN  IsMostTraded(l) =>
               /\ \A n \in 1..Len(r) : r[n].how_many = HalfOpenCount(db, r[n].isin)
               /\ Len(r) < 10 =>
                     \A x \in EligibleIsins(db, l.key[2]) :
                        HalfOpenCount(db, x) > 0 => x \in IsinsOf(r)

(* C6 amended: the trades counted are those with D 00:00 < t < D+1 00:00;  *)
(* a trade at exactly D 00:00 or D+1 00:00, or outside, is not counted.    *)
C6_OpenWindow ==
    \A i \in 1..Len(lookups) :
        LET l == lookups[i]
            r == l.result
        IN  IsMostTraded(l) =>
               /\ \A n \in 1..Len(r) : r[n].how_many = OpenCount(db, r[n].isin)
               /\ Len(r) < 10 =>
                     \A x \in EligibleIsins(db, l.key[2]) :
                        OpenCount(db, x) > 0 <=> x \in IsinsOf(r)

(* A result row for an ISIN that also has a trade at exactly D 00:00 and   *)
(* one at exactly D+1 00:00.                                               *)
C6_Witness ==
    \E i \in 1..Len(lookups) :
        LET l == lookups[i]
        IN  /\ IsMostTraded(l)
            /\ \E n \in 1..Len(l.result) :
                  /\ \E tr \in db.trades : tr.isin = l.result[n].isin /\ tr.t = Day
                  /\ \E tr \in db.trades : tr.isin = l.result[n].isin /\ tr.t = Day + OneDay

====
